---- MODULE Spec2Model ----
(***************************************************************************)
(* Business Planning Assistant (src/main.py): the response generator with  *)
(* its one-shot fallback, the feedback gate over the conversation store,   *)
(* and the interaction logger that writes to /logs/<user>/<timestamp>.     *)
(*                                                                         *)
(* Python str values are sequences of tokens.  Failure descriptions are    *)
(* spelled character by character, so that the substring test of           *)
(* get_ai_response is a real substring test; fixed literals of the source  *)
(* are single tokens.  An optional value is a sequence of length 0 (None)  *)
(* or 1.                                                                   *)
(***************************************************************************)
EXTENDS Integers, Sequences, FiniteSets, TLC

VARIABLES
    messages,          \* st.session_state["messages"]
    feedback_pending,  \* st.session_state["feedback_pending"]
    authenticated,     \* st.session_state["authenticated"]
    current_user,      \* st.session_state["current_user"]
    db_ref,            \* the cached root reference, FALSE when the connection failed
    logs,              \* the remote store under /logs: <<user, key>> -> record
    now,               \* the wall clock, in ticks
    op,                \* the handler that ran last
    pre,               \* the session state that handler started from
    trace,             \* the outbound calls that handler made, in order
    reply,             \* the text the last call of get_ai_response returned
    raised,            \* whether that handler ended with an exception
    logCalls,          \* number of calls of save_to_firebase so far
    allWritten         \* every one of them returned True

vars == <<messages, feedback_pending, authenticated, current_user, db_ref, logs,
          now, op, pre, trace, reply, raised, logCalls, allWritten>>

----------------------------------------------------------------------------
(* Bounds *)

MaxLogCalls == 3
MaxClock == 2
TicksPerSecond == 2

----------------------------------------------------------------------------
(* Values *)

None == <<>>
Some(x) == <<x>>

S502 == <<"5", "0", "2">>
BadGateway == <<"B", "a", "d", " ", "G", "a", "t", "e", "w", "a", "y">>

GeminiLabel == <<"gemini-3-pro-preview">>
ChatGPTLabel == <<"ChatGPT 5.2">>

MODEL_MAPPING ==
    (GeminiLabel :> <<"gemini-3-pro-preview">>) @@ (ChatGPTLabel :> <<"gpt-5.2-thinking">>)

AUTHORIZED_STUDENT_IDS == {<<"T", "h", "u", "n", "d", "e", "r">>}

FallbackModel == <<"gpt-5.2">>
\* temperature=0.7, in tenths
Temperature == 7

DefaultInstruction == <<"Business Planning Assistant">>

INITIAL_QUERY == <<"INITIAL_QUERY">>
UNDERSTOOD_FEEDBACK == <<"UNDERSTOOD_FEEDBACK">>
CLARIFICATION_REQUESTED == <<"CLARIFICATION_REQUESTED">>
CLARIFICATION_RESPONSE == <<"CLARIFICATION_RESPONSE">>
FEEDBACK_EVENT == <<"FEEDBACK_EVENT">>

\* Python's `sub in s` on strings
In(sub, s) ==
    \E i \in 0..(Len(s) - Len(sub)) : SubSeq(s, i + 1, i + Len(sub)) = sub

\* str.replace(".", "_")
Replace(s) == [i \in 1..Len(s) |-> IF s[i] = "." THEN "_" ELSE s[i]]

\* str(x) of an optional string
Str(x) == IF x = None THEN <<"N", "o", "n", "e">> ELSE x[1]

\* datetime.now().strftime("%Y%m%d_%H%M%S"): the clock cut to whole seconds
timestamp_key(t) == t \div TicksPerSecond

----------------------------------------------------------------------------
(* Inputs *)

Prompts == {<<"What is a break-even point?">>}
UserIds == AUTHORIZED_STUDENT_IDS \cup {<<"j", ".", "d", "o", "e">>}
Labels == DOMAIN MODEL_MAPPING
\* Developer Settings unchecked: the default model and system message
SelectedLabels == {GeminiLabel}
Instructions == {DefaultInstruction}

Ok(t) == [ok |-> TRUE, text |-> t]
Fail(e) == [ok |-> FALSE, text |-> e]

PrimaryOutcomes ==
    {Ok(<<"gemini answer">>), Fail(S502), Fail(<<"t", "i", "m", "e", "o", "u", "t">>)}
SecondaryOutcomes ==
    {Ok(<<"gpt answer">>), Fail(<<"q", "u", "o", "t", "a">>)}
WriteOutcomes == {"ok", "fail"}
Durations == 0..1

----------------------------------------------------------------------------
(* Response generator *)

\* the history in the primary provider's message shape
api_contents(chat_history) ==
    [i \in 1..Len(chat_history) |->
        [role |-> IF chat_history[i].role = "user" THEN "user" ELSE "model",
         text |-> chat_history[i].content]]

\* the history in the secondary provider's message shape
oa_messages(chat_history, system_instruction_text) ==
    <<[role |-> "system", content |-> system_instruction_text]>> \o
    [i \in 1..Len(chat_history) |->
        [role |-> IF chat_history[i].role = "model" THEN "assistant"
                  ELSE chat_history[i].role,
         content |-> chat_history[i].content]]

PrimaryCall(model_selection, chat_history, system_instruction_text, pOut) ==
    [ev |-> "primary",
     model |-> MODEL_MAPPING[model_selection],
     contents |-> api_contents(chat_history),
     temperature |-> Temperature,
     system_instruction |-> system_instruction_text,
     outcome |-> pOut]

SecondaryCall(chat_history, system_instruction_text, sOut) ==
    [ev |-> "secondary",
     model |-> FallbackModel,
     contents |-> oa_messages(chat_history, system_instruction_text),
     temperature |-> Temperature,
     system_instruction |-> None,
     outcome |-> sOut]

\* get_ai_response falling back on every primary failure
get_ai_response_AnyFailure(model_selection, chat_history, system_instruction_text, pOut, sOut) ==
    LET primary == PrimaryCall(model_selection, chat_history, system_instruction_text, pOut)
        secondary == SecondaryCall(chat_history, system_instruction_text, sOut)
        error_msg == pOut.text
    IN  IF pOut.ok
        THEN [text |-> pOut.text, calls |-> <<primary>>]
        ELSE IF sOut.ok
             THEN [text |-> sOut.text, calls |-> <<primary, secondary>>]
             ELSE [text |-> <<"Both models failed. Gemini Error: ">> \o error_msg
                            \o <<" | OpenAI Error: ">> \o sOut.text,
                   calls |-> <<primary, secondary>>]

\* get_ai_response reporting only the fallback's failure when both fail
get_ai_response_LostPrimaryError(model_selection, chat_history, system_instruction_text, pOut, sOut) ==
    LET primary == PrimaryCall(model_selection, chat_history, system_instruction_text, pOut)
        secondary == SecondaryCall(chat_history, system_instruction_text, sOut)
        error_msg == pOut.text
    IN  IF pOut.ok
        THEN [text |-> pOut.text, calls |-> <<primary>>]
        ELSE IF In(S502, error_msg) \/ In(BadGateway, error_msg)
             THEN IF sOut.ok
                  THEN [text |-> sOut.text, calls |-> <<primary, secondary>>]
                  ELSE [text |-> <<"Error: ">> \o sOut.text,
                        calls |-> <<primary, secondary>>]
             ELSE [text |-> <<"Error: ">> \o error_msg, calls |-> <<primary>>]

\* pOut, sOut: what the primary and the secondary provider answer when called.
\* The result is the returned text and the outbound calls made, in order.
get_ai_response(model_selection, chat_history, system_instruction_text, pOut, sOut) ==
    LET primary == PrimaryCall(model_selection, chat_history, system_instruction_text, pOut)
        secondary == SecondaryCall(chat_history, system_instruction_text, sOut)
        error_msg == pOut.text
    IN  IF pOut.ok
        THEN [text |-> pOut.text, calls |-> <<primary>>]
        ELSE IF In(S502, error_msg) \/ In(BadGateway, error_msg)
             THEN IF sOut.ok
                  THEN [text |-> sOut.text, calls |-> <<primary, secondary>>]
                  ELSE [text |-> <<"Both models failed. Gemini Error: ">> \o error_msg
                                 \o <<" | OpenAI Error: ">> \o sOut.text,
                        calls |-> <<primary, secondary>>]
             ELSE [text |-> <<"Error: ">> \o error_msg, calls |-> <<primary>>]

----------------------------------------------------------------------------
(* Interaction logger *)

\* save_to_firebase without its try/except: a failed set() propagates
save_to_firebase_Propagates(db, store, user_id, model_name, prompt_, full_response, interaction_type, t, wr) ==
    LET clean_user_id == Replace(Str(user_id))
        key == <<clean_user_id, timestamp_key(t)>>
        rec == [model_name |-> model_name,
                prompt |-> prompt_,
                response |-> full_response,
                interaction_type |-> interaction_type,
                full_timestamp |-> timestamp_key(t)]
        call(ret) == [ev |-> "log", user_id |-> user_id, rec |-> rec, ret |-> ret]
    IN  IF db
        THEN IF wr = "ok"
             THEN [logs |-> [k \in DOMAIN store \cup {key} |->
                                IF k = key THEN rec ELSE store[k]],
                   raised |-> FALSE, event |-> call("True")]
             ELSE [logs |-> store, raised |-> TRUE, event |-> call("False")]
        ELSE [logs |-> store, raised |-> FALSE, event |-> call("None")]

\* db: db_ref is set; store: the records under /logs; t: the clock when the
\* key is taken; wr: whether the remote set() succeeds.
save_to_firebase(db, store, user_id, model_name, prompt_, full_response, interaction_type, t, wr) ==
    LET clean_user_id == Replace(Str(user_id))
        key == <<clean_user_id, timestamp_key(t)>>
        rec == [model_name |-> model_name,
                prompt |-> prompt_,
                response |-> full_response,
                interaction_type |-> interaction_type,
                full_timestamp |-> timestamp_key(t)]
        call(ret) == [ev |-> "log", user_id |-> user_id, rec |-> rec, ret |-> ret]
    IN  IF db
        THEN IF wr = "ok"
             THEN [logs |-> [k \in DOMAIN store \cup {key} |->
                                IF k = key THEN rec ELSE store[k]],
                   raised |-> FALSE, event |-> call("True")]
             ELSE [logs |-> store, raised |-> FALSE, event |-> call("False")]
        ELSE [logs |-> store, raised |-> FALSE, event |-> call("None")]

----------------------------------------------------------------------------
(* Session state and handlers.                                             *)
(* s:   the session state [messages, feedback_pending, authenticated,      *)
(*      current_user]                                                      *)
(* env: [db, logs, now], the logger's connection, the remote store and the *)
(*      clock when the handler starts                                      *)
(* inp: [label, instruction, pOut, sOut, d, wr1, wr2], the sidebar's model *)
(*      choice and system message, the providers' answers, the ticks the   *)
(*      generator takes, and whether the first and second remote write     *)
(*      succeed                                                            *)
(* A handler yields [s, logs, now, trace, reply, raised].                  *)

SessionInit ==
    [messages |-> <<>>, feedback_pending |-> FALSE,
     authenticated |-> FALSE, current_user |-> None]

Turn(role, content) == [role |-> role, content |-> content]

Outcome(s, store, t, tr, rep, exc) ==
    [s |-> s, logs |-> store, now |-> t, trace |-> tr, reply |-> rep, raised |-> exc]

\* a chat input that is never disabled
chat_input_AlwaysEnabled(disabled, typed) == Some(typed)

\* st.chat_input(..., disabled=...): a disabled input submits nothing
chat_input(disabled, typed) == IF disabled THEN None ELSE Some(typed)

\* the Login button
login(u_id, s) ==
    IF u_id \in AUTHORIZED_STUDENT_IDS
    THEN [s EXCEPT !.authenticated = TRUE, !.current_user = Some(u_id)]
    ELSE s

\* the Logout button: the session state is cleared and initialised again
logout(s) == SessionInit

\* Clear Chat emptying the store without opening the gate
clear_chat_KeepsPending(s) == [s EXCEPT !.messages = <<>>]

\* the Clear Chat button
clear_chat(s) == [s EXCEPT !.messages = <<>>, !.feedback_pending = FALSE]

\* the submit path calling the generator before the user turn is appended
submit_prompt_StaleHistory(typed, s, env, inp) ==
    LET prompt == chat_input(s.feedback_pending, typed)
    IN  IF prompt = None \/ prompt = Some(<<>>)
        THEN Outcome(s, env.logs, env.now, <<>>, None, FALSE)
        ELSE
        LET s1 == [s EXCEPT !.messages = Append(@, Turn("user", prompt[1]))]
            gen == get_ai_response(inp.label, s.messages, inp.instruction,
                                   inp.pOut, inp.sOut)
            t1 == env.now + inp.d
            sv == save_to_firebase(env.db, env.logs, s.current_user, inp.label,
                                   prompt[1], gen.text, INITIAL_QUERY, t1, inp.wr1)
            tr == gen.calls \o <<sv.event>>
        IN  IF sv.raised
            THEN Outcome(s1, sv.logs, t1, tr, Some(gen.text), TRUE)
            ELSE Outcome([s1 EXCEPT !.messages = Append(@, Turn("assistant", gen.text)),
                                    !.feedback_pending = TRUE],
                         sv.logs, t1, tr, Some(gen.text), FALSE)

\* the chat input and the submit path of the script
submit_prompt(typed, s, env, inp) ==
    LET prompt == chat_input(s.feedback_pending, typed)
    IN  IF prompt = None \/ prompt = Some(<<>>)
        THEN Outcome(s, env.logs, env.now, <<>>, None, FALSE)
        ELSE
        LET s1 == [s EXCEPT !.messages = Append(@, Turn("user", prompt[1]))]
            gen == get_ai_response(inp.label, s1.messages, inp.instruction,
                                   inp.pOut, inp.sOut)
            t1 == env.now + inp.d
            sv == save_to_firebase(env.db, env.logs, s.current_user, inp.label,
                                   prompt[1], gen.text, INITIAL_QUERY, t1, inp.wr1)
            tr == gen.calls \o <<sv.event>>
        IN  IF sv.raised
            THEN Outcome(s1, sv.logs, t1, tr, Some(gen.text), TRUE)
            ELSE Outcome([s1 EXCEPT !.messages = Append(@, Turn("assistant", gen.text)),
                                    !.feedback_pending = TRUE],
                         sv.logs, t1, tr, Some(gen.text), FALSE)

\* the callback logging the clarification request only after the generator
\* has returned
handle_feedback_LateRequestLog(understood, s, env, inp) ==
    LET interaction == IF understood THEN UNDERSTOOD_FEEDBACK ELSE CLARIFICATION_REQUESTED
        last_ai_reply == s.messages[Len(s.messages)].content
    IN  IF Len(s.messages) < 2
        THEN Outcome(s, env.logs, env.now, <<>>, None, TRUE)
        ELSE IF ~understood
        THEN
        LET clarification_prompt ==
                <<"I don't understand the previous explanation: '">> \o last_ai_reply
                \o <<"'. Please break it down further.">>
            s1 == [s EXCEPT !.messages = Append(@, Turn("user", clarification_prompt))]
            gen == get_ai_response(inp.label, s1.messages, inp.instruction,
                                   inp.pOut, inp.sOut)
            t1 == env.now + inp.d
            sv1 == save_to_firebase(env.db, env.logs, s.current_user, inp.label,
                                    last_ai_reply, interaction, FEEDBACK_EVENT,
                                    t1, inp.wr1)
            sv2 == save_to_firebase(env.db, sv1.logs, s.current_user, inp.label,
                                    clarification_prompt, gen.text,
                                    CLARIFICATION_RESPONSE, t1, inp.wr2)
            tr == gen.calls \o <<sv1.event, sv2.event>>
        IN  Outcome([s1 EXCEPT !.messages = Append(@, Turn("assistant", gen.text)),
                               !.feedback_pending = TRUE],
                    sv2.logs, t1, tr, Some(gen.text), FALSE)
        ELSE
        LET sv1 == save_to_firebase(env.db, env.logs, s.current_user, inp.label,
                                    last_ai_reply, interaction, FEEDBACK_EVENT,
                                    env.now, inp.wr1)
        IN  Outcome([s EXCEPT !.feedback_pending = FALSE],
                    sv1.logs, env.now, <<sv1.event>>, None, FALSE)

\* the callback asking for a clarification whichever button was pressed
handle_feedback_AlwaysClarifies(understood, s, env, inp) ==
    LET interaction == IF understood THEN UNDERSTOOD_FEEDBACK ELSE CLARIFICATION_REQUESTED
        last_ai_reply == s.messages[Len(s.messages)].content
        sv1 == save_to_firebase(env.db, env.logs, s.current_user, inp.label,
                                last_ai_reply, interaction, FEEDBACK_EVENT,
                                env.now, inp.wr1)
        clarification_prompt ==
            <<"I don't understand the previous explanation: '">> \o last_ai_reply
            \o <<"'. Please break it down further.">>
        s1 == [s EXCEPT !.messages = Append(@, Turn("user", clarification_prompt))]
        gen == get_ai_response(inp.label, s1.messages, inp.instruction,
                               inp.pOut, inp.sOut)
        t1 == env.now + inp.d
        sv2 == save_to_firebase(env.db, sv1.logs, s.current_user, inp.label,
                                clarification_prompt, gen.text,
                                CLARIFICATION_RESPONSE, t1, inp.wr2)
    IN  IF Len(s.messages) < 2
        THEN Outcome(s, env.logs, env.now, <<>>, None, TRUE)
        ELSE Outcome([s1 EXCEPT !.messages = Append(@, Turn("assistant", gen.text)),
                                !.feedback_pending = TRUE],
                     sv2.logs, t1, <<sv1.event>> \o gen.calls \o <<sv2.event>>,
                     Some(gen.text), FALSE)

\* the on_click callback of the two feedback buttons
handle_feedback(understood, s, env, inp) ==
    LET interaction == IF understood THEN UNDERSTOOD_FEEDBACK ELSE CLARIFICATION_REQUESTED
        last_ai_reply == s.messages[Len(s.messages)].content
        sv1 == save_to_firebase(env.db, env.logs, s.current_user, inp.label,
                                last_ai_reply, interaction, FEEDBACK_EVENT,
                                env.now, inp.wr1)
    IN  IF Len(s.messages) < 2
        THEN Outcome(s, env.logs, env.now, <<>>, None, TRUE)   \* IndexError
        ELSE IF sv1.raised
        THEN Outcome(s, sv1.logs, env.now, <<sv1.event>>, None, TRUE)
        ELSE IF ~understood
        THEN
        LET clarification_prompt ==
                <<"I don't understand the previous explanation: '">> \o last_ai_reply
                \o <<"'. Please break it down further.">>
            s1 == [s EXCEPT !.messages = Append(@, Turn("user", clarification_prompt))]
            gen == get_ai_response(inp.label, s1.messages, inp.instruction,
                                   inp.pOut, inp.sOut)
            t1 == env.now + inp.d
            sv2 == save_to_firebase(env.db, sv1.logs, s.current_user, inp.label,
                                    clarification_prompt, gen.text,
                                    CLARIFICATION_RESPONSE, t1, inp.wr2)
            tr == <<sv1.event>> \o gen.calls \o <<sv2.event>>
        IN  IF sv2.raised
            THEN Outcome(s1, sv2.logs, t1, tr, Some(gen.text), TRUE)
            ELSE Outcome([s1 EXCEPT !.messages = Append(@, Turn("assistant", gen.text)),
                                    !.feedback_pending = TRUE],
                         sv2.logs, t1, tr, Some(gen.text), FALSE)
        ELSE Outcome([s EXCEPT !.feedback_pending = FALSE],
                     sv1.logs, env.now, <<sv1.event>>, None, FALSE)

----------------------------------------------------------------------------
(* The application: one action per user interaction *)

Session ==
    [messages |-> messages, feedback_pending |-> feedback_pending,
     authenticated |-> authenticated, current_user |-> current_user]

Env == [db |-> db_ref, logs |-> logs, now |-> now]

Inputs(withSecondWrite) ==
    [label : SelectedLabels, instruction : Instructions,
     pOut : PrimaryOutcomes, sOut : SecondaryOutcomes,
     d : Durations, wr1 : WriteOutcomes,
     wr2 : IF withSecondWrite THEN WriteOutcomes ELSE {"ok"}]

LogEvents(tr) == {i \in 1..Len(tr) : tr[i].ev = "log"}

\* the session state after a sidebar button
Button(name, s) ==
    /\ messages' = s.messages
    /\ feedback_pending' = s.feedback_pending
    /\ authenticated' = s.authenticated
    /\ current_user' = s.current_user
    /\ op' = name
    /\ pre' = Session
    /\ trace' = <<>>
    /\ reply' = None
    /\ raised' = FALSE
    /\ UNCHANGED <<db_ref, logs, now, logCalls, allWritten>>

\* the state after a handler that may call the generator and the logger
Handler(name, o) ==
    /\ o.now <= MaxClock
    /\ logCalls + Cardinality(LogEvents(o.trace)) <= MaxLogCalls
    /\ messages' = o.s.messages
    /\ feedback_pending' = o.s.feedback_pending
    /\ authenticated' = o.s.authenticated
    /\ current_user' = o.s.current_user
    /\ logs' = o.logs
    /\ now' = o.now
    /\ op' = name
    /\ pre' = Session
    /\ trace' = o.trace
    /\ reply' = o.reply
    /\ raised' = o.raised
    /\ logCalls' = logCalls + Cardinality(LogEvents(o.trace))
    /\ allWritten' = (allWritten /\ \A i \in LogEvents(o.trace) : o.trace[i].ret = "True")
    /\ UNCHANGED db_ref

Init ==
    /\ messages = SessionInit.messages
    /\ feedback_pending = SessionInit.feedback_pending
    /\ authenticated = SessionInit.authenticated
    /\ current_user = SessionInit.current_user
    /\ db_ref \in BOOLEAN
    /\ logs = <<>>
    /\ now = 0
    /\ op = "start"
    /\ pre = SessionInit
    /\ trace = <<>>
    /\ reply = None
    /\ raised = FALSE
    /\ logCalls = 0
    /\ allWritten = TRUE

Login ==
    /\ ~authenticated
    /\ \E u_id \in UserIds : Button("login", login(u_id, Session))

Logout ==
    /\ authenticated
    /\ Button("logout", logout(Session))

ClearChat ==
    /\ authenticated
    /\ Button("clear", clear_chat(Session))

SubmitPrompt ==
    /\ authenticated
    /\ \E typed \in Prompts, inp \in Inputs(FALSE) :
          Handler("prompt", submit_prompt(typed, Session, Env, inp))

Understood ==
    /\ authenticated
    /\ feedback_pending
    /\ \E inp \in Inputs(FALSE) :
          Handler("feedback_true", handle_feedback(TRUE, Session, Env, inp))

NeedHelp ==
    /\ authenticated
    /\ feedback_pending
    /\ \E inp \in Inputs(TRUE) :
          Handler("feedback_false", handle_feedback(FALSE, Session, Env, inp))

Tick ==
    /\ now < MaxClock
    /\ now' = now + 1
    /\ UNCHANGED <<messages, feedback_pending, authenticated, current_user, db_ref,
                   logs, op, pre, trace, reply, raised, logCalls, allWritten>>

Next ==
    \/ Login
    \/ Logout
    \/ ClearChat
    \/ SubmitPrompt
    \/ Understood
    \/ NeedHelp
    \/ Tick

Spec == Init /\ [][Next]_vars

----------------------------------------------------------------------------
(* The response generator on its own: get_ai_response applied to a history *)
(* and a pair of provider answers drawn from wider sets.                   *)

Histories ==
    {<<>>,
     <<Turn("user", <<"q1">>)>>,
     <<Turn("user", <<"q1">>), Turn("assistant", <<"a1">>), Turn("user", <<"q2">>)>>,
     <<Turn("user", <<"q1">>), Turn("model", <<"a1">>), Turn("user", <<"c1">>),
       Turn("user", <<"q2">>)>>}

GenPrimaryOutcomes ==
    {Ok(<<"gemini answer">>),
     Fail(S502),
     Fail(<<"H", "T", "T", "P", " ", "5", "0", "2", "!">>),
     Fail(BadGateway),
     Fail(<<"u", "p", ":", " ">> \o BadGateway \o <<".">>),
     Fail(<<"t", "i", "m", "e", "o", "u", "t">>),
     Fail(<<"5", "2", "0">>),
     Fail(<<"5", "0", " ", "2">>),
     Fail(<<"b", "a", "d", " ", "g", "a", "t", "e", "w", "a", "y">>),
     Fail(<<"B", "a", "d", " ", "R", "e", "q", "u", "e", "s", "t">>),
     Fail(<<>>)}

GenSecondaryOutcomes ==
    {Ok(<<"gpt answer">>),
     Fail(<<"q", "u", "o", "t", "a">>),
     Fail(S502)}

InitGen ==
    /\ messages \in Histories
    /\ feedback_pending = SessionInit.feedback_pending
    /\ authenticated = SessionInit.authenticated
    /\ current_user = SessionInit.current_user
    /\ db_ref = FALSE
    /\ logs = <<>>
    /\ now = 0
    /\ op = "start"
    /\ pre = SessionInit
    /\ trace = <<>>
    /\ reply = None
    /\ raised = FALSE
    /\ logCalls = 0
    /\ allWritten = TRUE

Generate ==
    \E label \in Labels, instruction \in Instructions,
       pOut \in GenPrimaryOutcomes, sOut \in GenSecondaryOutcomes :
        LET gen == get_ai_response(label, messages, instruction, pOut, sOut)
        IN  /\ op' = "generate"
            /\ pre' = Session
            /\ trace' = gen.calls
            /\ reply' = Some(gen.text)
            /\ raised' = FALSE
            /\ UNCHANGED <<messages, feedback_pending, authenticated, current_user,
                           db_ref, logs, now, logCalls, allWritten>>

NextGen == Generate

SpecGen == InitGen /\ [][NextGen]_vars

----------------------------------------------------------------------------
(* Properties *)

Calls(kind) == {i \in 1..Len(trace) : trace[i].ev = kind}

\* the failure description carries the unavailability signature
Unavailable(e) == In(S502, e) \/ In(BadGateway, e)

\* text `a` occurs in `s`, and text `b` occurs after that occurrence
InOrder(a, b, s) ==
    \E i \in 0..(Len(s) - Len(a)) :
        /\ SubSeq(s, i + 1, i + Len(a)) = a
        /\ \E j \in (i + Len(a))..(Len(s) - Len(b)) : SubSeq(s, j + 1, j + Len(b)) = b

KindOf(name, i) ==
    CASE name = "prompt" -> INITIAL_QUERY
      [] name = "feedback_true" -> UNDERSTOOD_FEEDBACK
      [] name = "feedback_false" ->
            IF i = 1 THEN CLARIFICATION_REQUESTED ELSE CLARIFICATION_RESPONSE
      [] OTHER -> None

InteractionKinds ==
    {INITIAL_QUERY, UNDERSTOOD_FEEDBACK, CLARIFICATION_REQUESTED, CLARIFICATION_RESPONSE}

\* C1: in every invocation of get_ai_response the primary provider is called
\* at most once and the secondary at most once (never more than two outbound
\* calls), the secondary is called exactly when the primary call failed with
\* a description containing "502" or "Bad Gateway", and never before the
\* primary has failed.
C1_FallbackOnlyOnUnavailable ==
    op = "generate" =>
        /\ Cardinality(Calls("primary")) <= 1
        /\ Cardinality(Calls("secondary")) <= 1
        /\ Len(trace) <= 2
        /\ (Calls("secondary") # {}) <=>
              (\E i \in Calls("primary") :
                  ~trace[i].outcome.ok /\ Unavailable(trace[i].outcome.text))
        /\ \A j \in Calls("secondary") :
              \E i \in Calls("primary") : i < j /\ ~trace[i].outcome.ok

C1_Witness ==
    /\ op = "generate"
    /\ Len(trace) = 2
    /\ trace[1].ev = "primary"
    /\ ~trace[1].outcome.ok
    /\ In(BadGateway, trace[1].outcome.text)
    /\ ~In(S502, trace[1].outcome.text)
    /\ trace[2].ev = "secondary"

\* C2: get_ai_response always returns a text and never raises, and the text
\* is fixed by the provider answers: the primary text on primary success;
\* the secondary text when the primary fails with the unavailability
\* signature and the secondary succeeds; a text holding the primary failure
\* description and, after it, the fallback failure description when both
\* fail; a text holding the primary failure description when the primary
\* fails without the signature.
C2_ReturnedText ==
    op = "generate" =>
        /\ ~raised
        /\ reply # None
        /\ Len(trace) >= 1
        /\ LET p == trace[1].outcome
           IN  /\ p.ok => reply[1] = p.text
               /\ (~p.ok /\ ~Unavailable(p.text)) => In(p.text, reply[1])
               /\ (~p.ok /\ Unavailable(p.text)) =>
                     /\ Len(trace) = 2
                     /\ trace[2].outcome.ok => reply[1] = trace[2].outcome.text
                     /\ ~trace[2].outcome.ok =>
                           InOrder(p.text, trace[2].outcome.text, reply[1])

C2_Witness ==
    /\ op = "generate"
    /\ Len(trace) = 2
    /\ ~trace[1].outcome.ok
    /\ ~trace[2].outcome.ok
    /\ trace[1].outcome.text # trace[2].outcome.text
    /\ reply # None
    /\ InOrder(trace[1].outcome.text, trace[2].outcome.text, reply[1])

\* C3: a prompt submitted while the gate is open appends exactly two turns,
\* the user turn with the prompt and then an assistant turn holding exactly
\* the text the generator returned for the history that already ends with
\* the new user turn; exactly one logger call (prompt, reply) is made, after
\* the generator's calls; and the gate ends pending.
C3_SubmitPrompt ==
    (op = "prompt" /\ ~pre.feedback_pending) =>
        LET n == Len(pre.messages)
        IN  /\ reply # None
            /\ Len(messages) = n + 2
            /\ SubSeq(messages, 1, n) = pre.messages
            /\ messages[n + 1].role = "user"
            /\ messages[n + 1].content \in Prompts
            /\ messages[n + 2] = Turn("assistant", reply[1])
            /\ feedback_pending
            /\ Len(trace) >= 2
            /\ trace[1].ev = "primary"
            /\ Len(trace[1].contents) = n + 1
            /\ trace[1].contents[n + 1] =
                  [role |-> "user", text |-> messages[n + 1].content]
            /\ Calls("log") = {Len(trace)}
            /\ trace[Len(trace)].rec.prompt = messages[n + 1].content
            /\ trace[Len(trace)].rec.response = reply[1]

C3_Witness ==
    /\ op = "prompt"
    /\ ~pre.feedback_pending
    /\ Len(messages) = 2
    /\ Len(trace) = 3
    /\ ~trace[2].outcome.ok
    /\ messages[2].role = "assistant"
    /\ feedback_pending

\* C4: "I need some help!" pressed while pending leaves the gate pending,
\* appends exactly two turns (a user clarification turn embedding the last
\* assistant reply, then an assistant turn with the text the generator
\* returned for the history extended by that turn) and makes exactly two
\* logger calls: the clarification request before the generator is invoked,
\* the clarification response after it returned.  A 2-turn store becomes a
\* 4-turn store ending with the second assistant reply.
C4_NeedHelp ==
    (op = "feedback_false" /\ pre.feedback_pending) =>
        LET n == Len(pre.messages)
            last == Len(trace)
        IN  /\ feedback_pending
            /\ reply # None
            /\ Len(messages) = n + 2
            /\ SubSeq(messages, 1, n) = pre.messages
            /\ messages[n + 1].role = "user"
            /\ In(pre.messages[n].content, messages[n + 1].content)
            /\ messages[n + 2] = Turn("assistant", reply[1])
            /\ Calls("log") = {1, last}
            /\ last >= 3
            /\ trace[2].ev = "primary"
            /\ Len(trace[2].contents) = n + 1
            /\ trace[2].contents[n + 1] =
                  [role |-> "user", text |-> messages[n + 1].content]
            /\ CLARIFICATION_REQUESTED \in
                  {trace[1].rec.interaction_type, trace[1].rec.response}
            /\ trace[1].rec.prompt = pre.messages[n].content
            /\ trace[last].rec.interaction_type = CLARIFICATION_RESPONSE
            /\ trace[last].rec.prompt = messages[n + 1].content
            /\ trace[last].rec.response = reply[1]
            /\ (n = 2 => Len(messages) = 4 /\ messages[4].role = "assistant")

C4_Witness ==
    /\ op = "feedback_false"
    /\ pre.feedback_pending
    /\ Len(pre.messages) = 2
    /\ Len(messages) = 4
    /\ messages[4] = Turn("assistant", reply[1])
    /\ feedback_pending

\* C5: "I understand!" pressed while pending opens the gate, makes exactly
\* one logger call, calls no provider and leaves the turn sequence as it was.
C5_Understood ==
    (op = "feedback_true" /\ pre.feedback_pending) =>
        /\ ~feedback_pending
        /\ Cardinality(Calls("log")) = 1
        /\ Calls("primary") = {}
        /\ Calls("secondary") = {}
        /\ messages = pre.messages

C5_Witness ==
    /\ op = "feedback_true"
    /\ pre.feedback_pending
    /\ ~feedback_pending
    /\ Len(messages) = 2
    /\ Len(trace) = 1

\* C6: every record handed to the logger has an interaction kind among
\* INITIAL_QUERY, UNDERSTOOD_FEEDBACK, CLARIFICATION_REQUESTED and
\* CLARIFICATION_RESPONSE, the one of the operation that produced it, and
\* its response field holds response text, not a kind name.
C6_RecordKinds ==
    \A i \in Calls("log") :
        /\ trace[i].rec.interaction_type \in InteractionKinds
        /\ trace[i].rec.interaction_type = KindOf(op, i)
        /\ trace[i].rec.response \notin InteractionKinds

\* C7: a prompt is accepted only while the gate is open; a submission while
\* pending changes neither the store nor the gate; the gate leaves pending
\* only by "I understand!", Clear Chat or Logout.
C7_FeedbackGate ==
    /\ (op = "prompt" /\ pre.feedback_pending) =>
          /\ messages = pre.messages
          /\ feedback_pending
          /\ trace = <<>>
    /\ (op = "prompt" /\ (messages # pre.messages \/ trace # <<>>)) =>
          ~pre.feedback_pending
    /\ (pre.feedback_pending /\ ~feedback_pending) =>
          op \in {"feedback_true", "clear", "logout"}

C7_Witness ==
    /\ op = "prompt"
    /\ pre.feedback_pending
    /\ feedback_pending
    /\ messages = pre.messages
    /\ Len(messages) >= 2

\* C8: whenever the gate is pending the store holds at least two turns, the
\* last an assistant turn right after a user turn; Clear Chat leaves the
\* store empty and the gate open together; so the feedback handler never
\* runs on fewer than two turns.
C8_PendingHasExchange ==
    /\ feedback_pending =>
          /\ Len(messages) >= 2
          /\ messages[Len(messages)].role = "assistant"
          /\ messages[Len(messages) - 1].role = "user"
    /\ op = "clear" => (messages = <<>> /\ ~feedback_pending)
    /\ op \in {"feedback_true", "feedback_false"} =>
          (Len(pre.messages) >= 2 /\ ~raised)

C8_Witness ==
    /\ op = "clear"
    /\ pre.feedback_pending
    /\ Len(pre.messages) >= 2
    /\ messages = <<>>
    /\ ~feedback_pending

\* C9: a logger call that fails, or a logger without connection, raises
\* nothing and changes nothing in the conversation: whatever each logger
\* call returned, a submitted prompt ends with the user turn and the
\* generated reply appended and the gate pending, "I understand!" ends with
\* the store untouched and the gate open, "I need some help!" ends with the
\* clarification turn and the generated reply appended and the gate pending.
C9_LoggerFailureIsHarmless ==
    LET n == Len(pre.messages)
        failed == \E i \in Calls("log") : trace[i].ret # "True"
    IN  failed =>
        /\ ~raised
        /\ (~db_ref => logs = <<>>)
        /\ (op = "prompt") =>
              /\ Len(messages) = n + 2
              /\ reply # None
              /\ messages[n + 2] = Turn("assistant", reply[1])
              /\ feedback_pending
        /\ (op = "feedback_true") =>
              /\ messages = pre.messages
              /\ ~feedback_pending
        /\ (op = "feedback_false") =>
              /\ Len(messages) = n + 2
              /\ reply # None
              /\ messages[n + 2] = Turn("assistant", reply[1])
              /\ feedback_pending

C9_Witness ==
    /\ op = "feedback_false"
    /\ db_ref
    /\ Len(trace) >= 3
    /\ trace[1].ret = "False"
    /\ trace[Len(trace)].ret = "False"
    /\ Len(messages) = 4
    /\ feedback_pending

\* C10: when every logger write succeeded, the log store holds one distinct
\* record per logger call: no call overwrites the record of an earlier one.
C10_OneRecordPerCall ==
    allWritten => Cardinality(DOMAIN logs) = logCalls

====
